---- MODULE Spec2Model ----
(***************************************************************************)
(* A model of atkinson/dlrn/http_data.py: the DlrnHttpData client.         *)
(*                                                                         *)
(* Python values that may be None are tagged records: None is              *)
(* [type |-> "NoneType"], a str s is [type |-> "str", val |-> s], a dict   *)
(* d is [type |-> "dict", val |-> d].  A Python dict is a TLA+ function    *)
(* whose DOMAIN is the set of keys present.  Strings are TLA+ strings, so  *)
(* slicing and joining act on their characters.                            *)
(*                                                                         *)
(* The remote is the environment: every fetch draws its response from a    *)
(* bounded set (a connection error, a non-200 answer, or a 200 answer with *)
(* a body).  A YAML body is given by the document it parses to, or marked  *)
(* malformed; a CSV body is given by its lines, each a sequence of cells.  *)
(***************************************************************************)
EXTENDS Integers, Sequences, FiniteSets, TLC

VARIABLES
    url,          \* self.url
    commit_data,  \* self._commit_data, the CommitRecord
    phase,        \* "constructed", or "ctor_raised" when __init__ raised
    last          \* the latest operation: its input, result, exception, log

vars == <<url, commit_data, phase, last>>

----------------------------------------------------------------------------
(* Bounds of the model *)

MaxCommits == 2
MaxRows == 2

(* Program constants *)

HttpOk == 200
ShardLen == 2
ShortHashLen == 8

----------------------------------------------------------------------------
(* Python values *)

None == [type |-> "NoneType"]
Str(s) == [type |-> "str", val |-> s]
Dict(d) == [type |-> "dict", val |-> d]
IsStr(v) == v.type = "str"

EmptyDict == [k \in {} |-> None]

DictGet(d, k) == IF k \in DOMAIN d THEN d[k] ELSE None

DictSet(d, k, v) == [x \in (DOMAIN d) \cup {k} |-> IF x = k THEN v ELSE d[x]]

Min(a, b) == IF a < b THEN a ELSE b

\* s[a:b] for 0 <= a <= b
Slice(s, a, b) ==
    IF a >= Min(b, Len(s)) THEN "" ELSE SubSeq(s, a + 1, Min(b, Len(s)))

StartsWithSep(s) == Len(s) > 0 /\ Head(s) = "/"
EndsWithSep(s) == Len(s) > 0 /\ SubSeq(s, Len(s), Len(s)) = "/"

\* str.replace(' ', '_')
RECURSIVE ReplaceSpaces(_)
ReplaceSpaces(s) ==
    IF s = "" THEN ""
    ELSE (IF Head(s) = " " THEN "_" ELSE Head(s)) \o ReplaceSpaces(Tail(s))

\* os.path.join(a, *p) of posixpath
RECURSIVE OsPathJoin(_, _)
OsPathJoin(a, p) ==
    IF p = <<>> THEN a
    ELSE LET b == Head(p)
             path == IF StartsWithSep(b) THEN b
                     ELSE IF a = "" \/ EndsWithSep(a) THEN a \o b
                     ELSE a \o "/" \o b
         IN OsPathJoin(path, Tail(p))

----------------------------------------------------------------------------
(* Results and log messages *)

Warning(about) == [level |-> "warning", about |-> about]
Error(about) == [level |-> "error", about |-> about]

----------------------------------------------------------------------------
(* What the remote may answer *)

Bases == {"h", "h/"}
Release == "r"
LinkName == "current"

ConnectionError(body) == [kind |-> "ConnectionError", status |-> 0, body |-> body]
Http(status, body) == [kind |-> "http", status |-> status, body |-> body]

\* commit.yaml: entries of the commits list.  extended_hash is optional;
\* the YAML scalar None is the string "None" (YAML's null is null or ~).
CommitEntry(status, ext) ==
    ("status" :> Str(status)) @@ ("project_name" :> Str("foo"))
    @@ ("distro_hash" :> Str("abcd1234"))
    @@ ("commit_hash" :> Str("1234567890abcdef")) @@ ext

NoExtended == EmptyDict
Extended(e) == "extended_hash" :> Str(e)

EntryNoStatus == ("project_name" :> Str("foo"))
EntryNoCommitHash ==
    ("status" :> Str("SUCCESS")) @@ ("project_name" :> Str("foo"))
    @@ ("distro_hash" :> Str("abcd1234"))

CommitEntries ==
    {CommitEntry(s, e) : s \in {"SUCCESS", "ERROR"},
                         e \in {NoExtended, Extended("None"),
                                Extended("ef01ab23cd45")}}
    \cup {EntryNoStatus, EntryNoCommitHash}

CommitLists == UNION {[1..n -> CommitEntries] : n \in 0..MaxCommits}

EmptyYaml == [wellformed |-> TRUE, doc |-> None]
MalformedYaml == [wellformed |-> FALSE, doc |-> None]
YamlWithoutCommits == [wellformed |-> TRUE, doc |-> Dict("other" :> <<>>)]
YamlWithCommits(c) == [wellformed |-> TRUE, doc |-> Dict("commits" :> c)]

YamlBodies ==
    {EmptyYaml, MalformedYaml, YamlWithoutCommits}
    \cup {YamlWithCommits(c) : c \in CommitLists}

YamlResponses ==
    {ConnectionError(EmptyYaml), Http(404, EmptyYaml)}
    \cup {Http(HttpOk, b) : b \in YamlBodies}

\* versions.csv and status_report.csv: a header line and data lines, one cell
\* per header field.  The header names are spelled with spaces, which
\* _parse_csv turns into the underscores of the keys the accessors read.
CsvHeaders ==
    {<<"Project", "Status", "Source Sha", "Dist Sha", "Extended Sha", "Pkg NVR">>}

CsvLine(project, status, extended) ==
    <<project, status, "aa11bb22", "cc33dd44", extended, "pkg-1.0-1">>

CsvLines ==
    {CsvLine(p, "FAILED", e) : p \in {"foo", "bar"},
                               e \in {"None", "ee55ff66aa77"}}
    \cup {CsvLine(p, "SUCCESS", "None") : p \in {"foo", "bar"}}

CsvBody(header, rows) == [header |-> header, rows |-> rows]
EmptyCsv == CsvBody(<<>>, <<>>)

CsvBodies ==
    {CsvBody(h, r) : h \in CsvHeaders,
                     r \in UNION {[1..n -> CsvLines] : n \in 0..MaxRows}}

CsvResponses ==
    {ConnectionError(EmptyCsv), Http(404, EmptyCsv)}
    \cup {Http(HttpOk, b) : b \in CsvBodies}

\* DlrnHttpData.hashes
hashes(commit, dist, extended) ==
    [commit |-> commit, dist |-> dist, extended |-> extended]

CommitValues ==
    {None, Str(""), Str("ab"), Str("abc"), Str("/abcd"), Str("a/bcd"),
     Str("aa11bb22"), Str("1234567890abcdef")}
DistValues ==
    {None, Str("None"), Str(""), Str("cc33dd44"), Str("abcd1234ef")}
ExtendedValues ==
    {None, Str("None"), Str(""), Str("ee55ff66"), Str("ef01ab23cd45")}

HashTriples ==
    {hashes(c, d, e) : c \in CommitValues, d \in DistValues,
                       e \in ExtendedValues}

----------------------------------------------------------------------------
(* The module's functions *)

\* _raw_fetch: the text, or nothing; a warning on a connection error
_raw_fetch(resp) ==
    IF resp.kind = "ConnectionError"
    THEN [ok |-> FALSE, text |-> resp.body, logged |-> <<Warning("request")>>]
    ELSE IF resp.status = HttpOk
    THEN [ok |-> TRUE, text |-> resp.body, logged |-> <<>>]
    ELSE [ok |-> FALSE, text |-> resp.body, logged |-> <<>>]

\* toolchest's yaml.parse: the parsed document, or YAMLError
yaml_parse(text) ==
    IF text.wellformed THEN [raised |-> "", data |-> text.doc]
    ELSE [raised |-> "YAMLError", data |-> None]

\* Variant: a fetch that yields nothing raises instead of returning None
fetch_yaml_raising(resp) ==
    LET raw == _raw_fetch(resp)
    IN IF raw.ok
       THEN LET y == yaml_parse(raw.text)
            IN [raised |-> y.raised, data |-> y.data, logged |-> raw.logged]
       ELSE [raised |-> "HTTPError", data |-> None, logged |-> raw.logged]

\* _fetch_yaml
_fetch_yaml(resp) ==
    LET raw == _raw_fetch(resp)
    IN IF raw.ok
       THEN LET y == yaml_parse(raw.text)
            IN [raised |-> y.raised, data |-> y.data, logged |-> raw.logged]
       ELSE [raised |-> "", data |-> None, logged |-> raw.logged]

\* Variant: the first entry whose status is SUCCESS, when there is one
FirstSuccessCommit(commits) ==
    LET ok == {i \in 1..Len(commits) :
                  /\ "status" \in DOMAIN commits[i]
                  /\ commits[i]["status"] = Str("SUCCESS")}
    IN IF ok = {} THEN commits[1]
       ELSE commits[CHOOSE i \in ok : \A j \in ok : i <= j]

\* data['commits'][0]
FirstCommit(commits) == commits[1]

CommitResult(raised, cd, logged, fetched) ==
    [raised |-> raised, commit_data |-> cd, logged |-> logged,
     fetched |-> fetched]

\* DlrnHttpData._fetch_commit, run on self._commit_data = {}
_fetch_commit(self_url, resp) ==
    LET full_url == OsPathJoin(self_url, <<LinkName, "commit.yaml">>)
        y == _fetch_yaml(resp)
        data == y.data
    IN IF y.raised # "" THEN CommitResult(y.raised, EmptyDict, y.logged, full_url)
       ELSE IF data # None /\ "commits" \in DOMAIN data.val
       THEN IF data.val["commits"] = <<>>
            THEN CommitResult("IndexError", EmptyDict, y.logged, full_url)
            ELSE LET pkg == FirstCommit(data.val["commits"])
                 IN IF "status" \notin DOMAIN pkg
                    THEN CommitResult("KeyError", EmptyDict, y.logged, full_url)
                    ELSE IF pkg["status"] = Str("SUCCESS")
                    THEN IF {"project_name", "distro_hash", "commit_hash"}
                               \subseteq DOMAIN pkg
                         THEN CommitResult("",
                                  ("name" :> pkg["project_name"])
                                  @@ ("dist_hash" :> pkg["distro_hash"])
                                  @@ ("commit_hash" :> pkg["commit_hash"])
                                  @@ ("extended_hash" :> DictGet(pkg, "extended_hash")),
                                  y.logged, full_url)
                         ELSE CommitResult("KeyError", EmptyDict, y.logged, full_url)
                    ELSE CommitResult("", EmptyDict,
                             y.logged \o <<Warning("status")>>, full_url)
       ELSE CommitResult("", EmptyDict, y.logged, full_url)

UrlResult(raised, value) == [raised |-> raised, value |-> value]

\* One turn of the loop of _build_url over 'dist' and 'extended'
AppendHash(third, data) ==
    IF third.raised # "" THEN third
    ELSE IF data # Str("None")
    THEN IF IsStr(data)
         THEN UrlResult("", third.value \o "_" \o Slice(data.val, 0, ShortHashLen))
         ELSE UrlResult("TypeError", "")
    ELSE third

\* Variant: the loop runs over 'extended' before 'dist'
build_url_extended_first(self_url, hash_data) ==
    IF ~IsStr(hash_data.commit) THEN UrlResult("TypeError", "")
    ELSE LET first == Slice(hash_data.commit.val, 0, ShardLen)
             second == Slice(hash_data.commit.val, ShardLen, 2 * ShardLen)
             third == AppendHash(
                          AppendHash(UrlResult("", hash_data.commit.val),
                                     hash_data.extended),
                          hash_data.dist)
         IN IF third.raised # "" THEN third
            ELSE UrlResult("", OsPathJoin(self_url, <<first, second, third.value>>))

\* DlrnHttpData._build_url
_build_url(self_url, hash_data) ==
    IF ~IsStr(hash_data.commit) THEN UrlResult("TypeError", "")
    ELSE LET first == Slice(hash_data.commit.val, 0, ShardLen)
             second == Slice(hash_data.commit.val, ShardLen, 2 * ShardLen)
             third == AppendHash(
                          AppendHash(UrlResult("", hash_data.commit.val),
                                     hash_data.dist),
                          hash_data.extended)
         IN IF third.raised # "" THEN third
            ELSE UrlResult("", OsPathJoin(self_url, <<first, second, third.value>>))

\* csv.DictReader on one data line
DictRow(fieldnames, cells) ==
    [k \in {fieldnames[i] : i \in 1..Len(fieldnames)} |->
        cells[CHOOSE i \in 1..Len(fieldnames) :
                 /\ fieldnames[i] = k
                 /\ \A j \in 1..Len(fieldnames) : fieldnames[j] = k => j <= i]]

\* data.replace(' ', '_'), tabulated once over the cells the remote may send
CsvCells == UNION {{l[i] : i \in 1..Len(l)} : l \in CsvHeaders \cup CsvLines}
Replaced == [c \in CsvCells |-> ReplaceSpaces(c)]

NormalizeLine(line) == [i \in 1..Len(line) |-> Replaced[line[i]]]

\* DlrnHttpData._parse_csv: the rows it yields and what it logs
_parse_csv(resp) ==
    LET raw == _raw_fetch(resp)
    IN IF raw.ok
       THEN LET fieldnames == NormalizeLine(raw.text.header)
            IN [rows |-> [i \in 1..Len(raw.text.rows) |->
                            DictRow(fieldnames, NormalizeLine(raw.text.rows[i]))],
                logged |-> raw.logged]
       ELSE [rows |-> <<>>, logged |-> raw.logged \o <<Error("fetch")>>]

CallResult(raised, value, logged, fetched) ==
    [raised |-> raised, value |-> value, logged |-> logged, fetched |-> fetched]

\* The loop of versions over the rows
RECURSIVE VersionsRows(_, _)
VersionsRows(rows, ret_dict) ==
    IF rows = <<>> THEN [raised |-> "", value |-> ret_dict]
    ELSE LET row == Head(rows)
         IN IF {"Project", "Source_Sha", "Status", "Dist_Sha", "Pkg_NVR"}
                   \subseteq DOMAIN row
            THEN VersionsRows(Tail(rows),
                     DictSet(ret_dict, row["Project"],
                             [source |-> row["Source_Sha"],
                              state |-> row["Status"],
                              distgit |-> row["Dist_Sha"],
                              nvr |-> row["Pkg_NVR"]]))
            ELSE [raised |-> "KeyError", value |-> EmptyDict]

\* Variant: the hash triple is built without the dist hash
versions_without_dist(self_url, self_commit_data, resp) ==
    LET version_hash == hashes(DictGet(self_commit_data, "commit_hash"),
                               Str("None"),
                               DictGet(self_commit_data, "extended_hash"))
        built == _build_url(self_url, version_hash)
    IN IF built.raised # "" THEN CallResult(built.raised, EmptyDict, <<>>, "")
       ELSE LET full_url == OsPathJoin(built.value, <<"versions.csv">>)
                parsed == _parse_csv(resp)
                r == VersionsRows(parsed.rows, EmptyDict)
            IN CallResult(r.raised, r.value, parsed.logged, full_url)

\* DlrnHttpData.versions
versions(self_url, self_commit_data, resp) ==
    LET version_hash == hashes(DictGet(self_commit_data, "commit_hash"),
                               DictGet(self_commit_data, "dist_hash"),
                               DictGet(self_commit_data, "extended_hash"))
        built == _build_url(self_url, version_hash)
    IN IF built.raised # "" THEN CallResult(built.raised, EmptyDict, <<>>, "")
       ELSE LET full_url == OsPathJoin(built.value, <<"versions.csv">>)
                parsed == _parse_csv(resp)
                r == VersionsRows(parsed.rows, EmptyDict)
            IN CallResult(r.raised, r.value, parsed.logged, full_url)

\* Variant: the loop of get_failures without the test of Status
RECURSIVE FailuresRowsUnfiltered(_, _, _)
FailuresRowsUnfiltered(self_url, rows, failed) ==
    IF rows = <<>> THEN [raised |-> "", value |-> failed]
    ELSE LET row == Head(rows)
             built == _build_url(self_url, hashes(Str(row["Source_Sha"]),
                                                  Str(row["Dist_Sha"]),
                                                  Str(row["Extended_Sha"])))
         IN IF built.raised # ""
            THEN [raised |-> built.raised, value |-> EmptyDict]
            ELSE FailuresRowsUnfiltered(self_url, Tail(rows),
                     DictSet(failed, row["Project"], built.value))

\* The loop of get_failures over the rows
RECURSIVE FailuresRows(_, _, _)
FailuresRows(self_url, rows, failed) ==
    IF rows = <<>> THEN [raised |-> "", value |-> failed]
    ELSE LET row == Head(rows)
         IN IF "Status" \notin DOMAIN row
            THEN [raised |-> "KeyError", value |-> EmptyDict]
            ELSE IF row["Status"] = "FAILED"
            THEN IF {"Source_Sha", "Dist_Sha", "Extended_Sha", "Project"}
                       \subseteq DOMAIN row
                 THEN LET failed_hash == hashes(Str(row["Source_Sha"]),
                                                Str(row["Dist_Sha"]),
                                                Str(row["Extended_Sha"]))
                          built == _build_url(self_url, failed_hash)
                      IN IF built.raised # ""
                         THEN [raised |-> built.raised, value |-> EmptyDict]
                         ELSE FailuresRows(self_url, Tail(rows),
                                  DictSet(failed, row["Project"], built.value))
                 ELSE [raised |-> "KeyError", value |-> EmptyDict]
            ELSE FailuresRows(self_url, Tail(rows), failed)

\* DlrnHttpData.get_failures
get_failures(self_url, resp) ==
    LET status_url == OsPathJoin(self_url, <<"status_report.csv">>)
        parsed == _parse_csv(resp)
        r == FailuresRows(self_url, parsed.rows, EmptyDict)
    IN CallResult(r.raised, r.value, parsed.logged, status_url)

----------------------------------------------------------------------------
(* The client as a state machine *)

Last(op, arg, r) ==
    [op |-> op, arg |-> arg, raised |-> r.raised, value |-> r.value,
     logged |-> r.logged, fetched |-> r.fetched]

\* DlrnHttpData.__init__
Constructed(base, resp) ==
    LET u == OsPathJoin(base, <<Release>>)
        r == _fetch_commit(u, resp)
    IN /\ url = u
       /\ commit_data = r.commit_data
       /\ phase = (IF r.raised = "" THEN "constructed" ELSE "ctor_raised")
       /\ last = Last("__init__", resp,
                      CallResult(r.raised, r.commit_data, r.logged, r.fetched))

Init == \E base \in Bases, resp \in YamlResponses : Constructed(base, resp)

\* The commit property
Commit ==
    /\ phase = "constructed"
    /\ last' = Last("commit", None, CallResult("", commit_data, <<>>, ""))
    /\ UNCHANGED <<url, commit_data, phase>>

\* Variant: versions fetches commit.yaml again and stores what it finds
VersionsRefetching ==
    /\ phase = "constructed"
    /\ \E resp \in CsvResponses, again \in YamlResponses :
          /\ last' = Last("versions", resp, versions(url, commit_data, resp))
          /\ commit_data' = _fetch_commit(url, again).commit_data
    /\ UNCHANGED <<url, phase>>

\* The versions property
Versions ==
    /\ phase = "constructed"
    /\ \E resp \in CsvResponses :
          last' = Last("versions", resp, versions(url, commit_data, resp))
    /\ UNCHANGED <<url, commit_data, phase>>

\* get_failures()
GetFailures ==
    /\ phase = "constructed"
    /\ \E resp \in CsvResponses :
          last' = Last("get_failures", resp, get_failures(url, resp))
    /\ UNCHANGED <<url, commit_data, phase>>

Next == Commit \/ Versions \/ GetFailures

Spec == Init /\ [][Next]_vars

\* _build_url on its own: a constructed client, and every hash triple
InitBuildUrl == \E base \in Bases : Constructed(base, Http(404, EmptyYaml))

BuildUrl ==
    /\ phase = "constructed"
    /\ \E hash_data \in HashTriples :
          LET r == _build_url(url, hash_data)
          IN last' = Last("_build_url", hash_data,
                          CallResult(r.raised, r.value, <<>>, ""))
    /\ UNCHANGED <<url, commit_data, phase>>

NextBuildUrl == BuildUrl

SpecBuildUrl == InitBuildUrl /\ [][NextBuildUrl]_vars

----------------------------------------------------------------------------
(* Vocabulary of the properties *)

RespOk(resp) == resp.kind = "http" /\ resp.status = HttpOk

\* How many of the messages an operation logged are of this level
CountLevel(logged, level) ==
    Cardinality({i \in 1..Len(logged) : logged[i].level = level})

\* The column of a CSV answer whose (normalised) header name is `name`
Column(resp, name) ==
    CHOOSE j \in 1..Len(resp.body.header) :
        ReplaceSpaces(resp.body.header[j]) = name

Cell(resp, i, name) == resp.body.rows[i][Column(resp, name)]

LastOf(S) == CHOOSE i \in S : \A j \in S : j <= i

\* The answer to commit.yaml carries a commits list with a first element
HasFirstCommit(resp) ==
    /\ RespOk(resp)
    /\ resp.body.wellformed
    /\ resp.body.doc # None
    /\ "commits" \in DOMAIN resp.body.doc.val
    /\ resp.body.doc.val["commits"] # <<>>

CommitsOf(resp) == resp.body.doc.val["commits"]

HasStatus(pkg, status) ==
    "status" \in DOMAIN pkg /\ pkg["status"] = Str(status)

\* A hash that yields no suffix: None, or the string "None"
Absent(v) == v = None \/ v = Str("None")

SuffixOf(v) == IF Absent(v) THEN "" ELSE "_" \o Slice(v.val, 0, 8)

\* No "/" among the characters of s that the two shard segments take
NoSepInShards(s) ==
    \A i \in 1..Min(4, Len(s)) : SubSeq(s, i, i) # "/"

----------------------------------------------------------------------------
(* C1 *)

C1_Case ==
    /\ last.op = "_build_url"
    /\ IsStr(last.arg.commit) /\ IsStr(last.arg.dist) /\ IsStr(last.arg.extended)
    /\ last.arg.dist # Str("None") /\ last.arg.extended # Str("None")

C1_Url ==
    url \o "/" \o Slice(last.arg.commit.val, 0, 2)
        \o "/" \o Slice(last.arg.commit.val, 2, 4)
        \o "/" \o last.arg.commit.val
        \o "_" \o Slice(last.arg.dist.val, 0, 8)
        \o "_" \o Slice(last.arg.extended.val, 0, 8)

\* C1, as stated: for every triple of strings whose dist and extended are not
\* "None", _build_url returns <url>/<commit[0:2]>/<commit[2:4]>/
\* <commit>_<dist[0:8]>_<extended[0:8]>, <url> being <base>/<release>.
C1_AnyStrings ==
    C1_Case => last.raised = "" /\ last.value = C1_Url

\* C1, amended: the same, for a commit hash of at least three characters
\* with no "/" among its first four, so that both shard segments are
\* non-empty path segments.
C1_ShardedUrl ==
    (C1_Case /\ Len(last.arg.commit.val) >= 3 /\ NoSepInShards(last.arg.commit.val))
        => last.raised = "" /\ last.value = C1_Url

C1_Witness ==
    /\ C1_Case
    /\ last.arg.commit = Str("1234567890abcdef")
    /\ Len(last.arg.dist.val) > 8 /\ Len(last.arg.extended.val) > 8
    /\ last.value = url \o "/12/34/1234567890abcdef_abcd1234_ef01ab23"

----------------------------------------------------------------------------
(* C2 *)

\* C2: with a commit hash present, a dist or extended hash that is None or
\* the string "None" makes _build_url return normally, with no suffix for
\* that hash and a suffix for each hash that is present and not "None".
C2_AbsentHashOmitted ==
    (/\ last.op = "_build_url"
     /\ IsStr(last.arg.commit)
     /\ (Absent(last.arg.dist) \/ Absent(last.arg.extended)))
        => /\ last.raised = ""
           /\ last.value =
                 OsPathJoin(url, <<Slice(last.arg.commit.val, 0, 2),
                                   Slice(last.arg.commit.val, 2, 4),
                                   last.arg.commit.val \o SuffixOf(last.arg.dist)
                                       \o SuffixOf(last.arg.extended)>>)

----------------------------------------------------------------------------
(* C3 *)

\* C3: after construction from a commit.yaml with a commits list, the
\* CommitRecord is decided by the first element alone: status SUCCESS gives
\* exactly its name, dist_hash, commit_hash and extended_hash (None when the
\* element has none); any other status gives an empty CommitRecord and
\* exactly one warning, whatever the later elements are.
C3_FirstCommitOnly ==
    (/\ last.op = "__init__"
     /\ HasFirstCommit(last.arg)
     /\ "status" \in DOMAIN CommitsOf(last.arg)[1])
        => LET pkg == CommitsOf(last.arg)[1]
           IN IF pkg["status"] = Str("SUCCESS")
              THEN {"project_name", "distro_hash", "commit_hash"} \subseteq DOMAIN pkg
                      => /\ last.raised = ""
                         /\ DOMAIN commit_data =
                               {"name", "dist_hash", "commit_hash", "extended_hash"}
                         /\ commit_data["name"] = pkg["project_name"]
                         /\ commit_data["dist_hash"] = pkg["distro_hash"]
                         /\ commit_data["commit_hash"] = pkg["commit_hash"]
                         /\ commit_data["extended_hash"] =
                               (IF "extended_hash" \in DOMAIN pkg
                                THEN pkg["extended_hash"] ELSE None)
              ELSE /\ last.raised = ""
                   /\ commit_data = EmptyDict
                   /\ CountLevel(last.logged, "warning") = 1

C3_Witness ==
    /\ last.op = "__init__"
    /\ HasFirstCommit(last.arg)
    /\ Len(CommitsOf(last.arg)) = 2
    /\ HasStatus(CommitsOf(last.arg)[1], "ERROR")
    /\ HasStatus(CommitsOf(last.arg)[2], "SUCCESS")
    /\ commit_data = EmptyDict
    /\ CountLevel(last.logged, "warning") = 1

----------------------------------------------------------------------------
(* C4 *)

C4_Constructed ==
    /\ last.op = "__init__"
    /\ HasFirstCommit(last.arg)
    /\ CommitsOf(last.arg)[1] = CommitEntry("SUCCESS", Extended("None"))

\* C4, as stated: a client constructed from a commit.yaml whose first commit
\* is {SUCCESS, foo, abcd1234, 1234567890abcdef, extended_hash None} fetches,
\* in versions(), <url>/12/34/1234567890abcdef/versions.csv.
C4_UrlWithoutDist ==
    [][(C4_Constructed /\ last'.op = "versions")
          => last'.fetched = url \o "/12/34/1234567890abcdef/versions.csv"]_vars

\* C4, amended: it fetches <url>/12/34/1234567890abcdef_abcd1234/versions.csv:
\* the dist hash abcd1234 is present and gives its suffix, only the extended
\* suffix is left out.
C4_UrlWithDist ==
    [][(C4_Constructed /\ last'.op = "versions")
          => last'.fetched =
                url \o "/12/34/1234567890abcdef_abcd1234/versions.csv"]_vars

C4_Witness ==
    /\ last.op = "versions"
    /\ commit_data = ("name" :> Str("foo")) @@ ("dist_hash" :> Str("abcd1234"))
                     @@ ("commit_hash" :> Str("1234567890abcdef"))
                     @@ ("extended_hash" :> Str("None"))
    /\ last.fetched = url \o "/12/34/1234567890abcdef_abcd1234/versions.csv"

----------------------------------------------------------------------------
(* C5 *)

FailedRows(resp) ==
    {i \in 1..Len(resp.body.rows) : Cell(resp, i, "Status") = "FAILED"}

\* C5: get_failures() returns a mapping whose keys are exactly the projects
\* with a FAILED row, each mapped to the _build_url result for the hashes of
\* its last FAILED row; the one row bar,FAILED,aa11bb22,cc33dd44,None gives
\* {bar: <url>/aa/11/aa11bb22_cc33dd44}.
C5_FailuresByProject ==
    (last.op = "get_failures" /\ RespOk(last.arg))
        => LET resp == last.arg
               projects == {Cell(resp, i, "Project") : i \in FailedRows(resp)}
           IN /\ last.raised = ""
              /\ DOMAIN last.value = projects
              /\ \A p \in projects :
                    LET i == LastOf({k \in FailedRows(resp) :
                                        Cell(resp, k, "Project") = p})
                    IN last.value[p] =
                          _build_url(url, hashes(Str(Cell(resp, i, "Source_Sha")),
                                                 Str(Cell(resp, i, "Dist_Sha")),
                                                 Str(Cell(resp, i, "Extended_Sha")))).value
              /\ resp.body.rows = <<CsvLine("bar", "FAILED", "None")>>
                    => last.value = ("bar" :> url \o "/aa/11/aa11bb22_cc33dd44")

C5_Witness ==
    /\ last.op = "get_failures"
    /\ RespOk(last.arg)
    /\ last.arg.body.rows = <<CsvLine("bar", "FAILED", "ee55ff66aa77"),
                              CsvLine("bar", "FAILED", "None")>>
    /\ last.value = ("bar" :> url \o "/aa/11/aa11bb22_cc33dd44")

----------------------------------------------------------------------------
(* C6 *)

VersionsOfRows(resp) ==
    LET projects == {Cell(resp, i, "Project") : i \in 1..Len(resp.body.rows)}
    IN [p \in projects |->
          LET i == LastOf({k \in 1..Len(resp.body.rows) :
                              Cell(resp, k, "Project") = p})
          IN [source |-> Cell(resp, i, "Source_Sha"),
              state |-> Cell(resp, i, "Status"),
              distgit |-> Cell(resp, i, "Dist_Sha"),
              nvr |-> Cell(resp, i, "Pkg_NVR")]]

\* C6: for every versions.csv row sequence, versions() returns the mapping
\* with one entry per Project, {source, state, distgit, nvr} of the last row
\* of that project.
C6_VersionsLastRowWins ==
    (last.op = "versions" /\ RespOk(last.arg))
        => last.raised = "" /\ last.value = VersionsOfRows(last.arg)

\* What the code does give: the same mapping whenever versions() returns.
C6_WhenVersionsReturns ==
    (last.op = "versions" /\ RespOk(last.arg) /\ last.raised = "")
        => last.value = VersionsOfRows(last.arg)

----------------------------------------------------------------------------
(* C7 *)

\* C7: with a CommitRecord populated from a SUCCESS entry and a CSV fetch
\* that yields nothing, versions() and get_failures() return an empty
\* mapping, raise nothing and log exactly one error.
C7_EmptyOnFailedFetch ==
    (/\ last.op \in {"versions", "get_failures"}
     /\ commit_data # EmptyDict
     /\ ~RespOk(last.arg))
        => /\ last.raised = ""
           /\ last.value = EmptyDict
           /\ CountLevel(last.logged, "error") = 1

----------------------------------------------------------------------------
(* C8 *)

\* C8: on a client whose CommitRecord is empty, versions() does not raise.
C8_VersionsOnEmptyRecord ==
    (last.op = "versions" /\ commit_data = EmptyDict) => last.raised = ""

----------------------------------------------------------------------------
(* C9 *)

C9_NoData(resp) == resp.kind = "ConnectionError" \/ resp.status # HttpOk

C9_Malformed(resp) == RespOk(resp) /\ ~resp.body.wellformed

C9_NoCommitsKey(resp) ==
    /\ RespOk(resp)
    /\ resp.body.wellformed
    /\ resp.body.doc # None
    /\ "commits" \notin DOMAIN resp.body.doc.val

\* C9, as stated: construction raises nothing and leaves the CommitRecord
\* empty on a connection error, a non-200 status, a body that is not YAML,
\* and a payload without a commits key.
C9_NoFailureRaises ==
    (/\ last.op = "__init__"
     /\ (C9_NoData(last.arg) \/ C9_Malformed(last.arg) \/ C9_NoCommitsKey(last.arg)))
        => last.raised = "" /\ phase = "constructed" /\ commit_data = EmptyDict

\* C9, amended: that holds on a connection error, a non-200 status and a
\* payload without a commits key; a body that is not YAML makes yaml.parse
\* raise, and the constructor lets that through (the CommitRecord it had set
\* is empty).
C9_OnlyParseFailureRaises ==
    /\ (last.op = "__init__" /\ (C9_NoData(last.arg) \/ C9_NoCommitsKey(last.arg)))
          => last.raised = "" /\ phase = "constructed" /\ commit_data = EmptyDict
    /\ (last.op = "__init__" /\ C9_Malformed(last.arg))
          => last.raised = "YAMLError" /\ phase = "ctor_raised"
             /\ commit_data = EmptyDict

C9_Witness ==
    /\ last.op = "__init__"
    /\ last.arg.kind = "http" /\ last.arg.status = 404
    /\ phase = "constructed"
    /\ commit_data = EmptyDict

----------------------------------------------------------------------------
(* C10 *)

\* C10: once the constructor has returned, no step changes the CommitRecord,
\* whatever the call, whatever the remote answers, and whether or not the
\* call raises.
C10_CommitRecordFrozen == [][commit_data' = commit_data]_vars

C10_Witness ==
    /\ last.op = "versions"
    /\ last.raised = "TypeError"
    /\ commit_data # EmptyDict

====
